---- MODULE Spec2Model ----
(***************************************************************************)
(* A model of dp7xx.py, the driver of a Rigol DP7xx power supply.          *)
(*                                                                         *)
(* Units.  Time is in milliseconds.  Voltages and currents are in          *)
(* thousandths (mV, mA), so 5.126 V is 5126.  Text (commands, replies) is  *)
(* a string, read one character at a time with SubSeq.                     *)
(*                                                                         *)
(* The driver is Python 2 code (print statement in test.py, str replies    *)
(* split on ',', b'..%s' % str): "/" on two ints is floor division, and    *)
(* serial.readline() returns '' when its timeout expires.                  *)
(***************************************************************************)
EXTENDS Integers, Sequences, FiniteSets, TLC

\* Python's None, and a value that is present.
None == << >>
Some(x) == <<x>>

----------------------------------------------------------------------------
(* Text helpers: the str methods the driver calls.                         *)

Ch(s, i) == SubSeq(s, i, i)

Whitespace == {" ", "\n", "\r", "\t"}

RECURSIVE LStripSet(_, _)
LStripSet(s, cs) ==
    IF Len(s) > 0 /\ Ch(s, 1) \in cs THEN LStripSet(SubSeq(s, 2, Len(s)), cs) ELSE s

RECURSIVE RStripSet(_, _)
RStripSet(s, cs) ==
    IF Len(s) > 0 /\ Ch(s, Len(s)) \in cs
    THEN RStripSet(SubSeq(s, 1, Len(s) - 1), cs)
    ELSE s

\* s.rstrip(c)
rstrip(s, c) == RStripSet(s, {c})

\* s.strip()
strip(s) == RStripSet(LStripSet(s, Whitespace), Whitespace)

\* s.split(sep) for a one-character sep: the list of fields.
RECURSIVE split(_, _)
split(s, sep) ==
    IF \E i \in 1..Len(s) : Ch(s, i) = sep
    THEN LET i == CHOOSE k \in 1..Len(s) :
                      Ch(s, k) = sep /\ \A j \in 1..(k - 1) : Ch(s, j) /= sep
         IN  <<SubSeq(s, 1, i - 1)>> \o split(SubSeq(s, i + 1, Len(s)), sep)
    ELSE <<s>>

UpperChars == "ABCDEFGHIJKLMNOPQRSTUVWXYZ"
LowerChars == "abcdefghijklmnopqrstuvwxyz"

LowerCh(c) ==
    IF \E i \in 1..Len(UpperChars) : Ch(UpperChars, i) = c
    THEN Ch(LowerChars, CHOOSE i \in 1..Len(UpperChars) : Ch(UpperChars, i) = c)
    ELSE c

\* s.lower()
RECURSIVE lower(_)
lower(s) ==
    IF Len(s) = 0 THEN "" ELSE LowerCh(Ch(s, 1)) \o lower(SubSeq(s, 2, Len(s)))

\* sub in s
contains(s, sub) ==
    \E i \in 1..(Len(s) - Len(sub) + 1) : SubSeq(s, i, i + Len(sub) - 1) = sub

----------------------------------------------------------------------------
(* Numbers and their text.                                                 *)

DigitChars == "0123456789"
IsDigit(c) == \E d \in 0..9 : Ch(DigitChars, d + 1) = c
DigitVal(c) == CHOOSE d \in 0..9 : Ch(DigitChars, d + 1) = c
DigitChar(d) == Ch(DigitChars, d + 1)

RECURSIVE NatText(_)
NatText(n) ==
    IF n < 10 THEN DigitChar(n) ELSE NatText(n \div 10) \o DigitChar(n % 10)

RECURSIVE DigitsVal(_)
DigitsVal(s) ==
    IF Len(s) = 0 THEN 0
    ELSE 10 * DigitsVal(SubSeq(s, 1, Len(s) - 1)) + DigitVal(Ch(s, Len(s)))

AllDigits(s) == \A i \in 1..Len(s) : IsDigit(Ch(s, i))

Abs(x) == IF x < 0 THEN -x ELSE x

\* x in thousandths rounded to hundredths (the result counts hundredths).
\* '%.2f' rounds the binary value to nearest, a tie to even.
RoundCenti(x) ==
    LET q == x \div 10
        r == x % 10
    IN  IF r > 5 \/ (r = 5 /\ q % 2 = 1) THEN q + 1 ELSE q

\* '%.2f' % x
Fixed2(x) ==
    LET c == RoundCenti(Abs(x))
    IN  (IF x < 0 THEN "-" ELSE "")
        \o NatText(c \div 100) \o "." \o DigitChar((c \div 10) % 10) \o DigitChar(c % 10)

\* minimal_float stripping '0' and '.' together: s.rstrip('0.')
minimal_float_StripBoth(x) == RStripSet(Fixed2(x), {"0", "."})

\* minimal_float: '%.2f', trailing 0s stripped, then a trailing '.'.
minimal_float(x) == rstrip(rstrip(Fixed2(x), "0"), ".")

\* The unsigned part of a number's text: digits, an optional point, digits.
PointAt(s) == CHOOSE i \in 1..Len(s) : Ch(s, i) = "."
HasPoint(s) == \E i \in 1..Len(s) : Ch(s, i) = "."
IntPart(s) == IF HasPoint(s) THEN SubSeq(s, 1, PointAt(s) - 1) ELSE s
FracPart(s) == IF HasPoint(s) THEN SubSeq(s, PointAt(s) + 1, Len(s)) ELSE ""
Unsigned(s) ==
    IF Len(s) > 0 /\ Ch(s, 1) \in {"-", "+"} THEN SubSeq(s, 2, Len(s)) ELSE s

\* Whether float(s) returns (else it raises ValueError).  Decimal notation only:
\* the instrument sends no exponent, inf or nan.
IsFloat(s) ==
    LET u == Unsigned(strip(s))
    IN  /\ AllDigits(IntPart(u))
        /\ AllDigits(FracPart(u))
        /\ Len(IntPart(u)) + Len(FracPart(u)) > 0

\* float(s), in thousandths; digits past the third decimal are below the
\* model's resolution.
float(s) ==
    LET t == strip(s)
        u == Unsigned(t)
        f == SubSeq(FracPart(u) \o "000", 1, 3)
        m == 1000 * DigitsVal(IntPart(u)) + DigitsVal(f)
    IN  IF Len(t) > 0 /\ Ch(t, 1) = "-" THEN -m ELSE m

\* clamp with its two results exchanged
clamp_Exchanged(x, lo, hi) ==
    IF x < lo THEN hi
    ELSE IF x > hi THEN lo
    ELSE x

\* clamp without its upper limit
clamp_NoUpper(x, lo, hi) == IF x < lo THEN lo ELSE x

\* clamp a value between limits
clamp(x, lo, hi) ==
    IF x < lo THEN lo
    ELSE IF x > hi THEN hi
    ELSE x

----------------------------------------------------------------------------
(* Bounds of the model and constants of the program.                       *)

\* MINIMAL_TIME = 0.05, in ms
MINIMAL_TIME == 50
\* serial.Serial(port, baud, timeout=timeout), in ms
timeout == 1000

\* largest n of ramp_voltage
MaxSteps == 2
\* replies that arrive late, never or garbled
MaxFaults == 1
\* how long an instrument takes to answer, ms: quicker and slower than MINIMAL_TIME
FastReply == 10
SlowReply == 60
\* how long the caller does something else between two operations, ms
IdleStep == 30
MaxIdle == 60

----------------------------------------------------------------------------
(* The instrument at the other end of the serial line.                     *)

\* What an instrument answers to the MAX queries (DP711: 30 V / 5 A,
\* DP712: 50 V / 3 A), and how long it takes to answer.  phase 0: the state of
\* its protection is not followed, it may answer a protection query with any
\* reply; phase k > 0: it is in state Panel[k].
Instruments ==
    { [max_v |-> "30.00\n", max_i |-> "5.00\n", max_over_v |-> "33.00\n",
       max_over_i |-> "5.50\n", lat |-> FastReply, phase |-> 0],
      [max_v |-> "50.00\n", max_i |-> "3.00\n", max_over_v |-> "55.00\n",
       max_over_i |-> "3.30\n", lat |-> SlowReply, phase |-> 0] }

\* The states the protection of a followed instrument goes through, in a
\* cycle: armed; tripped; then cleared, set lower and switched off by an
\* operator at the front panel.
Panel ==
    << [stat |-> "ON\n", level |-> "12.000\n", trip |-> "NO\n"],
       [stat |-> "ON\n", level |-> "12.000\n", trip |-> "YES\n"],
       [stat |-> "OFF\n", level |-> "1.500\n", trip |-> "NO\n"] >>

StatQueries == {":VOLT:PROT:STAT?\n", ":CURR:PROT:STAT?\n"}
LevelQueries == {":VOLT:PROT?\n", ":CURR:PROT?\n"}
TripQueries == {":VOLT:PROT:TRIP?\n", ":CURR:PROT:TRIP?\n"}

IDN_OK == "RIGOL,DP712,SN123,00.01.03\n"
IDN_3 == "RIGOL,DP712,SN123\n"
IDN_5 == "RIGOL,DP712,SN123,00.01.03,X\n"
Garbage == "ERR\n"

VARIABLES
    pc,          \* where the caller is: a step of __init__ or of an operation, "done"
                 \* (it returned or raised), "ready" for the next, "failed" (no session)
    now,         \* time.time()
    last_time,   \* self.last_time
    model, sn, ver, st_result,              \* set by identify and self_test
    max_v, max_i, max_over_i, max_over_v,   \* the session limits
    frame,       \* local variables of the running ramp_voltage / ovp_str / ocp_str
    op,          \* the operation in progress or last completed, with its arguments
    result,      \* what it returned or raised
    log,         \* what that operation did on the transport and the timer, in order
    sent,        \* when the last command was written to the port
    rx,          \* reply lines waiting in the port's input buffer
    late,        \* reply lines the instrument sent too late for the read that waited
    faults,      \* replies so far that were late, lost or garbled
    inst         \* the instrument connected

ident == <<model, sn, ver, st_result>>
limits == <<max_v, max_i, max_over_i, max_over_v>>
session == <<ident, limits>>
port == <<sent, rx, late, faults>>
vars == <<pc, now, last_time, session, frame, op, result, log, port, inst>>

\* What the instrument may answer to a query.
Replies(cmd) ==
    IF inst.phase > 0 /\ cmd \in StatQueries THEN {Panel[inst.phase].stat}
    ELSE IF inst.phase > 0 /\ cmd \in LevelQueries THEN {Panel[inst.phase].level}
    ELSE IF inst.phase > 0 /\ cmd \in TripQueries THEN {Panel[inst.phase].trip}
    ELSE
    CASE cmd = "*IDN?\n" -> {IDN_OK, IDN_3, IDN_5}
      [] cmd = "*TST?\n" -> {"PASS\n", "Self-Test Fail: OVP\n", "FAIL\n"}
      [] cmd = ":VOLT? MAX\n" -> {inst.max_v}
      [] cmd = ":CURR? MAX\n" -> {inst.max_i}
      [] cmd = ":VOLT:PROT? MAX\n" -> {inst.max_over_v}
      [] cmd = ":CURR:PROT? MAX\n" -> {inst.max_over_i}
      [] cmd \in {":VOLT?\n", ":CURR?\n", ":VOLT:PROT?\n", ":CURR:PROT?\n"} -> {"1.500\n", "12.000\n"}
      [] cmd \in {":VOLT:PROT:TRIP?\n", ":CURR:PROT:TRIP?\n"} -> {"YES\n", "NO\n", "Yes\n"}
      [] OTHER -> {"ON\n", "OFF\n", "on\n"}

\* One exchange with the instrument: the line it sends (text), and whether the
\* line arrives while the read waits ("prompt"), after the read gave up
\* ("late") or not at all ("never").
Exchanges(cmd) ==
    { x \in [how : {"prompt", "late", "never"}, text : Replies(cmd) \cup {Garbage}] :
        /\ (x.how /= "prompt" \/ x.text = Garbage) => faults < MaxFaults
        /\ x.how = "never" => x.text = Garbage }

\* a command that is not a query: the instrument sends nothing
NoExchange == [how |-> "none", text |-> ""]

IsFault(x) == x.how \in {"late", "never"} \/ (x.how = "prompt" /\ x.text = Garbage)

----------------------------------------------------------------------------
(* dp7xx.command                                                           *)

\* Delta with the minimal time left out
Delta_NoMinimum == last_time[1] - now

\* delta = MINIMAL_TIME + self.last_time - time.time()
Delta == MINIMAL_TIME + last_time[1] - now

\* whether command sleeps
Sleeps == last_time /= None /\ Delta > 0

\* time.time() when self.last_time is set and the command is written
SendTime == IF Sleeps THEN now + Delta ELSE now

\* the line the instrument sends for query cmd, tagged with the query
Answer(cmd, x) == [text |-> x.text, q |-> cmd]

\* the lines in the input buffer by the time readline returns
Arrived(cmd, x) ==
    rx \o late \o (IF x.how = "prompt" THEN <<Answer(cmd, x)>> ELSE << >>)

\* self.serial.readline(): the first line, or '' when the timeout expires
Line(cmd, x) == IF Arrived(cmd, x) = << >> THEN "" ELSE Head(Arrived(cmd, x)).text

\* how long readline blocks
ReadTime(cmd, x) ==
    IF Arrived(cmd, x) = << >> THEN timeout
    ELSE IF rx \o late /= << >> THEN 0
    ELSE inst.lat

\* what command(cmd) returns when rsp is true
Rsp(cmd, x) == strip(Line(cmd, x))

\* the query whose answer readline returns: the line at the head of the input
\* buffer, whichever command it was sent for
Consumed(cmd, x) == IF Arrived(cmd, x) = << >> THEN "" ELSE Head(Arrived(cmd, x)).q

SleepEvent(d, t) ==
    [ev |-> "sleep", cmd |-> "", arg |-> "", t |-> t, prev |-> None, dur |-> d]
WriteEvent(cmd, arg) ==
    [ev |-> "write", cmd |-> cmd, arg |-> arg, t |-> SendTime, prev |-> sent, dur |-> 0]
ReadEvent(cmd, x) ==
    [ev |-> "readline", cmd |-> Consumed(cmd, x), arg |-> Line(cmd, x), t |-> SendTime,
     prev |-> None,
     dur |-> ReadTime(cmd, x)]

\* command(cmd % arg, rsp), called by an operation that has logged `base` so far;
\* x is the exchange with the instrument that follows the write.
command(cmd, arg, rsp, base, x) ==
    /\ last_time' = Some(SendTime)
    /\ sent' = Some(SendTime)
    /\ log' = base
              \o (IF Sleeps THEN <<SleepEvent(Delta, now)>> ELSE << >>)
              \o <<WriteEvent(cmd, arg)>>
              \o (IF rsp THEN <<ReadEvent(cmd, x)>> ELSE << >>)
    /\ IF rsp
       THEN /\ now' = SendTime + ReadTime(cmd, x)
            /\ rx' = IF Arrived(cmd, x) = << >> THEN << >> ELSE Tail(Arrived(cmd, x))
            /\ late' = IF x.how = "late" THEN <<Answer(cmd, x)>> ELSE << >>
            /\ faults' = IF IsFault(x) THEN faults + 1 ELSE faults
       ELSE /\ now' = SendTime
            /\ UNCHANGED <<rx, late, faults>>

Returned(kind, val) == [kind |-> kind, val |-> val]
Raised(exc) == [kind |-> "raise", val |-> exc]
Running == [kind |-> "running", val |-> ""]
ReturnedNone == Returned("none", "")

NoFrame == [v |-> 0, i |-> 0, n |-> 0, delta_v |-> 0, delta_t |-> 0, s |-> << >>]

----------------------------------------------------------------------------
(* dp7xx.__init__: the handshake, one action per call it makes.            *)

Init ==
    /\ pc = "identify"
    /\ now = 0
    /\ last_time = None
    /\ model = None /\ sn = None /\ ver = None /\ st_result = None
    /\ max_v = None /\ max_i = None /\ max_over_i = None /\ max_over_v = None
    /\ frame = NoFrame
    /\ op = <<"__init__">>
    /\ result = Running
    /\ log = << >>
    /\ sent = None /\ rx = << >> /\ late = << >> /\ faults = 0
    /\ inst \in Instruments

\* the constructor ends with an exception: no session
Abort(exc) ==
    /\ pc' = "failed"
    /\ result' = Raised(exc)

\* identify accepting any reply of at least 4 fields
identify_AtLeast4 ==
    /\ pc = "identify"
    /\ \E x \in Exchanges("*IDN?\n") :
        /\ command("*IDN?\n", "", TRUE, log, x)
        /\ LET fields == split(Rsp("*IDN?\n", x), ",")
           IN  IF Len(fields) >= 4
               THEN /\ model' = Some(fields[2])
                    /\ sn' = Some(fields[3])
                    /\ ver' = Some(fields[4])
                    /\ pc' = "self_test"
                    /\ UNCHANGED result
               ELSE /\ Abort("AssertionError")
                    /\ UNCHANGED <<model, sn, ver>>
    /\ UNCHANGED <<st_result, limits, frame, op, inst>>

identify ==
    /\ pc = "identify"
    /\ \E x \in Exchanges("*IDN?\n") :
        /\ command("*IDN?\n", "", TRUE, log, x)
        /\ LET fields == split(Rsp("*IDN?\n", x), ",")
           IN  IF Len(fields) = 4
               THEN /\ model' = Some(fields[2])
                    /\ sn' = Some(fields[3])
                    /\ ver' = Some(fields[4])
                    /\ pc' = "self_test"
                    /\ UNCHANGED result
               ELSE /\ Abort("AssertionError")
                    /\ UNCHANGED <<model, sn, ver>>
    /\ UNCHANGED <<st_result, limits, frame, op, inst>>

\* self_test without lower()
self_test_CaseSensitive ==
    /\ pc = "self_test"
    /\ \E x \in Exchanges("*TST?\n") :
        /\ command("*TST?\n", "", TRUE, log, x)
        /\ st_result' = Some(IF contains(Rsp("*TST?\n", x), "fail") THEN "fail" ELSE "pass")
    /\ pc' = "max_voltage"
    /\ UNCHANGED <<model, sn, ver, limits, frame, op, result, inst>>

self_test ==
    /\ pc = "self_test"
    /\ \E x \in Exchanges("*TST?\n") :
        /\ command("*TST?\n", "", TRUE, log, x)
        /\ st_result' =
              Some(IF contains(lower(Rsp("*TST?\n", x)), "fail") THEN "fail" ELSE "pass")
    /\ pc' = "max_voltage"
    /\ UNCHANGED <<model, sn, ver, limits, frame, op, result, inst>>

\* float(self.command(cmd)) in __init__: at `here`, the limit is stored and the
\* constructor goes on to `next`, or float raises
LimitStep(here, cmd, next) ==
    /\ pc = here
    /\ \E x \in Exchanges(cmd) :
        /\ command(cmd, "", TRUE, log, x)
        /\ LET rsp == Rsp(cmd, x)
               got(field, old) == IF here = field THEN Some(float(rsp)) ELSE old
           IN  IF IsFloat(rsp)
               THEN /\ pc' = next
                    /\ max_v' = got("max_voltage", max_v)
                    /\ max_i' = got("max_current", max_i)
                    /\ max_over_i' = got("max_ocp", max_over_i)
                    /\ max_over_v' = got("max_ovp", max_over_v)
                    /\ result' = IF next = "done" THEN ReturnedNone ELSE result
               ELSE /\ Abort("ValueError")
                    /\ UNCHANGED limits
    /\ UNCHANGED <<ident, frame, op, inst>>

\* self.max_v = self.max_voltage()
init_max_voltage == LimitStep("max_voltage", ":VOLT? MAX\n", "max_current")
\* __init__ without its max_ocp() line
init_max_current_SkipOcp == LimitStep("max_current", ":CURR? MAX\n", "max_ovp")

\* self.max_i = self.max_current()
init_max_current == LimitStep("max_current", ":CURR? MAX\n", "max_ocp")
\* self.max_over_i = self.max_ocp()
init_max_ocp == LimitStep("max_ocp", ":CURR:PROT? MAX\n", "max_ovp")
\* self.max_over_v = self.max_ovp()
init_max_ovp == LimitStep("max_ovp", ":VOLT:PROT? MAX\n", "done")

----------------------------------------------------------------------------
(* The user-facing operations, called on a constructed session.            *)

\* values a caller asks for, in thousandths: below the range, in range off and
\* on the hundredths grid, above every limit
Requests == {-1000, 1234, 2500, 99000}

\* a caller starts operation name(args)
Call(name, args) ==
    /\ pc = "ready"
    /\ op' = <<name>> \o args

\* a boolean query that compares without regard to letter case
BoolQuery_AnyCase(name, cmd, yes) ==
    /\ Call(name, <<None>>)
    /\ \E x \in Exchanges(cmd) :
        /\ command(cmd, "", TRUE, << >>, x)
        /\ result' = Returned("bool", lower(Rsp(cmd, x)) = lower(yes))
    /\ pc' = "done"
    /\ UNCHANGED <<session, frame, inst>>

\* return self.command(cmd) == yes
BoolQuery(name, cmd, yes) ==
    /\ Call(name, <<None>>)
    /\ \E x \in Exchanges(cmd) :
        /\ command(cmd, "", TRUE, << >>, x)
        /\ result' = Returned("bool", Rsp(cmd, x) = yes)
    /\ pc' = "done"
    /\ UNCHANGED <<session, frame, inst>>

\* return float(self.command(cmd))
FloatQuery(name, cmd) ==
    /\ Call(name, <<None>>)
    /\ \E x \in Exchanges(cmd) :
        /\ command(cmd, "", TRUE, << >>, x)
        /\ result' = IF IsFloat(Rsp(cmd, x))
                     THEN Returned("float", float(Rsp(cmd, x)))
                     ELSE Raised("ValueError")
    /\ pc' = "done"
    /\ UNCHANGED <<session, frame, inst>>

\* state = ('OFF', 'ON')[ctrl]; self.command(cmd % state, False)
BoolSet(name, cmd, ctrl) ==
    /\ Call(name, <<Some(ctrl)>>)
    /\ command(cmd, IF ctrl THEN "ON" ELSE "OFF", FALSE, << >>, NoExchange)
    /\ result' = ReturnedNone
    /\ pc' = "done"
    /\ UNCHANGED <<session, frame, inst>>

\* a setter that stores the request as the voltage limit (self.max_v = val)
ValueSet_StoresLimit(name, cmd, val, text) ==
    /\ Call(name, <<Some(val)>>)
    /\ command(cmd, text, FALSE, << >>, NoExchange)
    /\ result' = ReturnedNone
    /\ pc' = "done"
    /\ max_v' = Some(val)
    /\ UNCHANGED <<ident, max_i, max_over_i, max_over_v, frame, inst>>

\* self.command(cmd % text, False) with the text of a clamped value
ValueSet(name, cmd, val, text) ==
    /\ Call(name, <<Some(val)>>)
    /\ command(cmd, text, FALSE, << >>, NoExchange)
    /\ result' = ReturnedNone
    /\ pc' = "done"
    /\ UNCHANGED <<session, frame, inst>>

\* the text voltage(val) sends: val = clamp(val, 0.0, self.max_v); minimal_float(val)
VoltageText(val) == minimal_float(clamp(val, 0, max_v[1]))
\* current(val)
CurrentText(val) == minimal_float(clamp(val, 0, max_i[1]))
\* ovp_level(val): '%.2f' % clamp(val, 0.0, self.max_over_v)
OvpLevelText(val) == Fixed2(clamp(val, 0, max_over_v[1]))
\* ocp_level(val)
OcpLevelText(val) == Fixed2(clamp(val, 0, max_over_i[1]))

display(ctrl) ==
    IF ctrl = None THEN BoolQuery("display", ":DISP?\n", "ON")
    ELSE BoolSet("display", ":DISP %s\n", ctrl[1])

output(ctrl) ==
    IF ctrl = None THEN BoolQuery("output", ":OUTP:STAT? CH1\n", "ON")
    ELSE BoolSet("output", ":OUTP:STAT CH1,%s\n", ctrl[1])

voltage(val) ==
    IF val = None THEN FloatQuery("voltage", ":VOLT?\n")
    ELSE ValueSet("voltage", ":VOLT %s\n", val[1], VoltageText(val[1]))

ovp_level(val) ==
    IF val = None THEN FloatQuery("ovp_level", ":VOLT:PROT?\n")
    ELSE ValueSet("ovp_level", ":VOLT:PROT %.2f\n", val[1], OvpLevelText(val[1]))

ovp_ctrl(ctrl) ==
    IF ctrl = None THEN BoolQuery("ovp_ctrl", ":VOLT:PROT:STAT?\n", "ON")
    ELSE BoolSet("ovp_ctrl", ":VOLT:PROT:STAT %s\n", ctrl[1])

ovp_tripped == BoolQuery("ovp_tripped", ":VOLT:PROT:TRIP?\n", "YES")

\* ovp_clear waiting for a reply to its command
ovp_clear_ReadsReply ==
    /\ Call("ovp_clear", << >>)
    /\ \E x \in Exchanges(":VOLT:PROT:CLE\n") :
        command(":VOLT:PROT:CLE\n", "", TRUE, << >>, x)
    /\ result' = ReturnedNone
    /\ pc' = "done"
    /\ UNCHANGED <<session, frame, inst>>

ovp_clear ==
    /\ Call("ovp_clear", << >>)
    /\ command(":VOLT:PROT:CLE\n", "", FALSE, << >>, NoExchange)
    /\ result' = ReturnedNone
    /\ pc' = "done"
    /\ UNCHANGED <<session, frame, inst>>

current(val) ==
    IF val = None THEN FloatQuery("current", ":CURR?\n")
    ELSE ValueSet("current", ":CURR %s\n", val[1], CurrentText(val[1]))

ocp_level(val) ==
    IF val = None THEN FloatQuery("ocp_level", ":CURR:PROT?\n")
    ELSE ValueSet("ocp_level", ":CURR:PROT %.2f\n", val[1], OcpLevelText(val[1]))

ocp_ctrl(ctrl) ==
    IF ctrl = None THEN BoolQuery("ocp_ctrl", ":CURR:PROT:STAT?\n", "ON")
    ELSE BoolSet("ocp_ctrl", ":CURR:PROT:STAT %s\n", ctrl[1])

ocp_tripped == BoolQuery("ocp_tripped", ":CURR:PROT:TRIP?\n", "YES")

ocp_clear ==
    /\ Call("ocp_clear", << >>)
    /\ command(":CURR:PROT:CLE\n", "", FALSE, << >>, NoExchange)
    /\ result' = ReturnedNone
    /\ pc' = "done"
    /\ UNCHANGED <<session, frame, inst>>

\* ' '.join(s), '\n'.join(s)
RECURSIVE join(_, _)
join(sep, s) ==
    IF Len(s) = 0 THEN ""
    ELSE IF Len(s) = 1 THEN s[1]
    ELSE s[1] \o sep \o join(sep, Tail(s))

\* ovp_str / ocp_str, first line: s.append(('off', 'on')[self.ovp_ctrl()])
StrCtrl(name, cmd, next) ==
    /\ Call(name, << >>)
    /\ \E x \in Exchanges(cmd) :
        /\ command(cmd, "", TRUE, << >>, x)
        /\ frame' = [NoFrame EXCEPT !.s = <<IF Rsp(cmd, x) = "ON" THEN "on" ELSE "off">>]
    /\ pc' = next
    /\ result' = Running
    /\ UNCHANGED <<session, inst>>

\* second line: s.append('%.2fV' % self.ovp_level())
StrLevel(here, cmd, unit, next) ==
    /\ pc = here
    /\ \E x \in Exchanges(cmd) :
        /\ command(cmd, "", TRUE, log, x)
        /\ IF IsFloat(Rsp(cmd, x))
           THEN /\ frame' = [frame EXCEPT !.s = Append(@, Fixed2(float(Rsp(cmd, x))) \o unit)]
                /\ pc' = next
                /\ UNCHANGED result
           ELSE /\ frame' = NoFrame
                /\ pc' = "done"
                /\ result' = Raised("ValueError")
    /\ UNCHANGED <<session, op, inst>>

\* third line and the return: s.append(('ok', 'tripped')[self.ovp_tripped()])
StrTripped(here, cmd) ==
    /\ pc = here
    /\ \E x \in Exchanges(cmd) :
        /\ command(cmd, "", TRUE, log, x)
        /\ result' = Returned("str",
              join(" ", Append(frame.s, IF Rsp(cmd, x) = "YES" THEN "tripped" ELSE "ok")))
    /\ frame' = NoFrame
    /\ pc' = "done"
    /\ UNCHANGED <<session, op, inst>>

ovp_str_ctrl == StrCtrl("ovp_str", ":VOLT:PROT:STAT?\n", "ovp_str_level")
\* ovp_str taking the level from the session's limit, without a query
ovp_str_level_Cached ==
    /\ pc = "ovp_str_level"
    /\ frame' = [frame EXCEPT !.s = Append(@, Fixed2(max_over_v[1]) \o "V")]
    /\ pc' = "ovp_str_tripped"
    /\ UNCHANGED <<now, last_time, session, op, result, log, port, inst>>

ovp_str_level == StrLevel("ovp_str_level", ":VOLT:PROT?\n", "V", "ovp_str_tripped")
ovp_str_tripped == StrTripped("ovp_str_tripped", ":VOLT:PROT:TRIP?\n")

ocp_str_ctrl == StrCtrl("ocp_str", ":CURR:PROT:STAT?\n", "ocp_str_level")
ocp_str_level == StrLevel("ocp_str_level", ":CURR:PROT?\n", "A", "ocp_str_tripped")
ocp_str_tripped == StrTripped("ocp_str_tripped", ":CURR:PROT:TRIP?\n")

ovp_str == ovp_str_ctrl \/ ovp_str_level \/ ovp_str_tripped
ocp_str == ocp_str_ctrl \/ ocp_str_level \/ ocp_str_tripped

\* __str__: no command is sent
Str ==
    /\ Call("__str__", << >>)
    /\ result' = Returned("str", join("\n",
          << "model " \o model[1],
             "serial number " \o sn[1],
             "version " \o ver[1],
             "selftest " \o st_result[1],
             "max voltage " \o Fixed2(max_v[1]) \o "V",
             "max current " \o Fixed2(max_i[1]) \o "A" >>))
    /\ log' = << >>
    /\ pc' = "done"
    /\ UNCHANGED <<now, last_time, session, frame, port, inst>>

\* one volt, in thousandths
Volt == 1000

\* Python 2's a / n: floor division when both are ints, true division when a
\* is a float.  An int is a whole number of volts.  The float arguments of the
\* model are chosen so that the quotient is a whole number of thousandths.
PyDiv(a, n, ints) ==
    IF ints THEN ((a \div Volt) \div n) * Volt ELSE a \div n

\* ramp_voltage without its first assert
ramp_voltage_NoTimeAssert(v0, v1, t, n, ints) ==
    /\ Call("ramp_voltage", <<v0, v1, t, n, ints>>)
    /\ log' = << >>
    /\ IF ~(n >= 1)
       THEN /\ result' = Raised("AssertionError")
            /\ pc' = "done"
            /\ UNCHANGED frame
       ELSE /\ frame' = [NoFrame EXCEPT !.v = v0, !.n = n,
                                        !.delta_v = PyDiv(v1 - v0, n, ints),
                                        !.delta_t = t \div n]
            /\ pc' = "ramp"
            /\ result' = Running
    /\ UNCHANGED <<now, last_time, session, port, inst>>

\* ramp_voltage(v0, v1, t, n): the asserts and the set-up before the loop.
\* ints: v0 and v1 are Python ints (as in ramp_voltage(0, 10, 1.0, 5)), else floats.
ramp_voltage(v0, v1, t, n, ints) ==
    /\ Call("ramp_voltage", <<v0, v1, t, n, ints>>)
    /\ log' = << >>
    /\ IF ~(t > 0) \/ ~(n >= 1)
       THEN /\ result' = Raised("AssertionError")
            /\ pc' = "done"
            /\ UNCHANGED frame
       ELSE /\ frame' = [NoFrame EXCEPT !.v = v0, !.n = n,
                                        !.delta_v = PyDiv(v1 - v0, n, ints),
                                        !.delta_t = t \div n]
            /\ pc' = "ramp"
            /\ result' = Running
    /\ UNCHANGED <<now, last_time, session, port, inst>>

\* in the loop: self.voltage(v)
ramp_set ==
    /\ pc = "ramp"
    /\ frame.i < frame.n
    /\ command(":VOLT %s\n", VoltageText(frame.v), FALSE, log, NoExchange)
    /\ pc' = "ramp_sleep"
    /\ UNCHANGED <<session, frame, op, result, inst>>

\* in the loop: time.sleep(delta_t); v += delta_v
ramp_sleep ==
    /\ pc = "ramp_sleep"
    /\ now' = now + frame.delta_t
    /\ log' = Append(log, SleepEvent(frame.delta_t, now))
    /\ frame' = [frame EXCEPT !.v = @ + frame.delta_v, !.i = @ + 1]
    /\ pc' = "ramp"
    /\ UNCHANGED <<last_time, session, op, result, port, inst>>

\* after the loop: self.voltage(v)
ramp_final ==
    /\ pc = "ramp"
    /\ frame.i = frame.n
    /\ command(":VOLT %s\n", VoltageText(frame.v), FALSE, log, NoExchange)
    /\ frame' = NoFrame
    /\ pc' = "done"
    /\ result' = ReturnedNone
    /\ UNCHANGED <<session, op, inst>>

\* arguments of ramp_voltage: ints in volts (45 is above one instrument's limit
\* and no multiple of 2), floats (36 V divides by every n up to 6), durations in ms
RampInts == {0, 45 * Volt}
RampFloats == {0, 36 * Volt}
Durations == {0, 60}

\* The operation (or the constructor) has returned or raised: the caller takes
\* the result and is ready to call the next operation.  The driver uses only
\* differences of time.time(), so the clock's epoch is moved here to the time of
\* the last command: any number of operations is a finite state space.
Return ==
    /\ pc = "done"
    /\ pc' = "ready"
    /\ op' = <<"none">>
    /\ result' = Running
    /\ log' = << >>
    /\ now' = now - last_time[1]
    /\ last_time' = Some(0)
    /\ sent' = Some(0)
    /\ UNCHANGED <<session, frame, rx, late, faults, inst>>

\* the caller does something else for a while
Idle ==
    /\ pc = "ready"
    /\ now - last_time[1] < MaxIdle
    /\ now' = now + IdleStep
    /\ UNCHANGED <<pc, last_time, session, frame, op, result, log, port, inst>>

BoolArgs == {None, Some(TRUE), Some(FALSE)}
ValueArgs == {None} \cup {Some(v) : v \in Requests}

Handshake ==
    \/ identify
    \/ self_test
    \/ init_max_voltage
    \/ init_max_current
    \/ init_max_ocp
    \/ init_max_ovp

Operation ==
    \/ \E ctrl \in BoolArgs : display(ctrl)
    \/ \E ctrl \in BoolArgs : output(ctrl)
    \/ \E val \in ValueArgs : voltage(val)
    \/ \E val \in ValueArgs : ovp_level(val)
    \/ \E ctrl \in BoolArgs : ovp_ctrl(ctrl)
    \/ ovp_tripped
    \/ ovp_clear
    \/ \E val \in ValueArgs : current(val)
    \/ \E val \in ValueArgs : ocp_level(val)
    \/ \E ctrl \in BoolArgs : ocp_ctrl(ctrl)
    \/ ocp_tripped
    \/ ocp_clear
    \/ ovp_str
    \/ ocp_str
    \/ Str

Ramp ==
    \/ \E v0, v1 \in RampInts, t \in Durations, n \in 0..MaxSteps :
          ramp_voltage(v0, v1, t, n, TRUE)
    \/ \E v0, v1 \in RampFloats, t \in Durations, n \in 0..MaxSteps :
          ramp_voltage(v0, v1, t, n, FALSE)
    \/ ramp_set
    \/ ramp_sleep
    \/ ramp_final

Next == Handshake \/ Operation \/ Ramp \/ Return \/ Idle
Spec == Init /\ [][Next]_vars

----------------------------------------------------------------------------
(* What the claims read from a state.                                      *)

Writes(l) == SelectSeq(l, LAMBDA e : e.ev = "write")
Reads(l) == SelectSeq(l, LAMBDA e : e.ev = "readline")
Cmds(l) == [i \in 1..Len(Writes(l)) |-> Writes(l)[i].cmd]
IsPrefix(a, b) == Len(a) <= Len(b) /\ a = SubSeq(b, 1, Len(a))

\* the constructor, or a user-facing operation, has returned or raised
Ended == pc \in {"done", "failed"}
InInit == op = <<"__init__">>
Constructed == InInit /\ pc = "done"

\* a read that gave up: '' after the whole timeout
TimedOut(e) == e.ev = "readline" /\ e.arg = "" /\ e.dur = timeout

HandshakePcs ==
    {"identify", "self_test", "max_voltage", "max_current", "max_ocp", "max_ovp"}

\* the handshake as __init__ sends it, and as the specification lists it
CodeOrder ==
    << "*IDN?\n", "*TST?\n", ":VOLT? MAX\n", ":CURR? MAX\n",
       ":CURR:PROT? MAX\n", ":VOLT:PROT? MAX\n" >>
ClaimedOrder ==
    << "*IDN?\n", "*TST?\n", ":VOLT? MAX\n", ":CURR? MAX\n",
       ":VOLT:PROT? MAX\n", ":CURR:PROT? MAX\n" >>

AllLimitsSet ==
    max_v /= None /\ max_i /= None /\ max_over_i /= None /\ max_over_v /= None

----------------------------------------------------------------------------
(* C1. Pacing: on one session, whatever the operations and the caller's    *)
(* cadence, every command is written at least MINIMAL_TIME (50 ms) after   *)
(* the command written before it.                                          *)
C1_Pacing ==
    \A i \in 1..Len(log) :
        (log[i].ev = "write" /\ log[i].prev /= None)
            => log[i].t - log[i].prev[1] >= MINIMAL_TIME

\* a user-facing operation called back to back: command slept, and its write
\* is exactly MINIMAL_TIME after the previous one
C1_Witness ==
    /\ pc = "done" /\ ~InInit
    /\ \E i \in 1..(Len(log) - 1) :
        /\ log[i].ev = "sleep" /\ log[i].dur > 0
        /\ log[i + 1].ev = "write"
        /\ log[i + 1].t - log[i + 1].prev[1] = MINIMAL_TIME

----------------------------------------------------------------------------
(* C2, as amended.  The constructor sends exactly six commands, in the     *)
(* order *IDN?, *TST?, :VOLT? MAX, :CURR? MAX, :CURR:PROT? MAX,            *)
(* :VOLT:PROT? MAX (over-current limit before over-voltage limit); while   *)
(* it runs it has sent a prefix of these, and a user-facing command is     *)
(* written only when all four limits are stored.                           *)
C2_HandshakeOrder ==
    /\ InInit => IsPrefix(Cmds(log), CodeOrder)
    /\ Constructed => (Cmds(log) = CodeOrder /\ AllLimitsSet)
    /\ ~InInit => AllLimitsSet

\* C2 as claimed: the over-voltage limit is queried before the over-current limit.
C2_Original ==
    /\ InInit => IsPrefix(Cmds(log), ClaimedOrder)
    /\ Constructed => (Cmds(log) = ClaimedOrder /\ AllLimitsSet)
    /\ ~InInit => AllLimitsSet

\* the constructor has returned a session
C2_Witness == Constructed /\ Len(Writes(log)) = 6 /\ Len(Reads(log)) = 6

----------------------------------------------------------------------------
(* The arguments of the ramp_voltage in progress or just ended.            *)
RampV0 == op[2]
RampV1 == op[3]
RampT == op[4]
RampN == op[5]
RampEnded == pc = "done" /\ op[1] = "ramp_voltage" /\ result.kind = "none"

\* a value in thousandths as a voltage set command carries it
OnWire(v) == minimal_float(clamp(v, 0, max_v[1]))

(* C3. ramp_voltage(v_start, v_end, duration, n) issues exactly n + 1      *)
(* voltage set commands and no other command, and the k-th of the loop     *)
(* (k = 0..n-1) carries clamp(v_start + k*(v_end - v_start)/n, 0,          *)
(* max_voltage).  (For the arguments of the model the quotient is a whole  *)
(* number of thousandths.)                                                 *)
C3_RampStepValues ==
    RampEnded =>
        LET w == Writes(log)
        IN  /\ Len(w) = RampN + 1
            /\ \A i \in 1..Len(w) : w[i].cmd = ":VOLT %s\n"
            /\ \A k \in 0..(RampN - 1) :
                  w[k + 1].arg = OnWire(RampV0 + (k * (RampV1 - RampV0)) \div RampN)

(* C4. The last voltage set command of ramp_voltage carries               *)
(* clamp(v_end, 0, max_voltage): the ramp ends on its target.              *)
C4_RampReachesTarget ==
    RampEnded => Writes(log)[Len(Writes(log))].arg = OnWire(RampV1)

----------------------------------------------------------------------------
(* C5. ramp_voltage with duration <= 0 or steps < 1 raises (an             *)
(* AssertionError) at once: nothing is written, nothing sleeps, and the    *)
(* clock, the pacing timestamp, the session and the port are as before.    *)
C5_RampPrecondition ==
    [][ (pc = "ready" /\ op'[1] = "ramp_voltage" /\ (op'[4] <= 0 \/ op'[5] < 1))
          => /\ pc' = "done"
             /\ result' = Raised("AssertionError")
             /\ log' = << >>
             /\ UNCHANGED <<now, last_time, session, frame, port>> ]_vars

\* a ramp of no steps has been refused
C5_Witness ==
    /\ pc = "done" /\ op[1] = "ramp_voltage"
    /\ RampT > 0 /\ RampN = 0
    /\ result.kind = "raise" /\ result.val = "AssertionError"
    /\ log = << >>

----------------------------------------------------------------------------
(* The set commands that carry a value, and the limit of each.             *)
ValueCmds == {":VOLT %s\n", ":CURR %s\n", ":VOLT:PROT %.2f\n", ":CURR:PROT %.2f\n"}
ValueSetters == {"voltage", "current", "ovp_level", "ocp_level"}
LimitOf(cmd) ==
    CASE cmd = ":VOLT %s\n" -> max_v[1]
      [] cmd = ":CURR %s\n" -> max_i[1]
      [] cmd = ":VOLT:PROT %.2f\n" -> max_over_v[1]
      [] cmd = ":CURR:PROT %.2f\n" -> max_over_i[1]
CmdOf(name) ==
    CASE name = "voltage" -> ":VOLT %s\n"
      [] name = "current" -> ":CURR %s\n"
      [] name = "ovp_level" -> ":VOLT:PROT %.2f\n"
      [] name = "ocp_level" -> ":CURR:PROT %.2f\n"
\* a setter was called with a value and has ended
SetterEnded == pc = "done" /\ op[1] \in ValueSetters /\ op[2] /= None

\* every value on the wire is a number within the limit of its quantity
WireWithinLimits ==
    \A i \in 1..Len(log) :
        (log[i].ev = "write" /\ log[i].cmd \in ValueCmds)
            => /\ IsFloat(log[i].arg)
               /\ 0 <= float(log[i].arg)
               /\ float(log[i].arg) <= LimitOf(log[i].cmd)

(* C6, as amended.  Every value carried by a set command lies within       *)
(* [0, limit] of its quantity (the limit being the handshake's reply, a    *)
(* whole number of hundredths).  A request below 0 is sent as 0, one above *)
(* the limit as the limit, and one in range is sent rounded to two         *)
(* decimals: unchanged only if it is a whole number of hundredths.  No     *)
(* request is rejected.                                                    *)
C6_ClampedTransmission ==
    /\ WireWithinLimits
    /\ SetterEnded =>
        LET val == op[2][1]
            w == Writes(log)
            lim == LimitOf(CmdOf(op[1]))
            sent_val == float(w[1].arg)
        IN  /\ result.kind = "none"
            /\ Len(w) = 1 /\ w[1].cmd = CmdOf(op[1])
            /\ val < 0 => sent_val = 0
            /\ val > lim => sent_val = lim
            /\ (0 <= val /\ val <= lim) =>
                  /\ sent_val % 10 = 0
                  /\ Abs(sent_val - val) <= 5
                  /\ (val % 10 = 0 => sent_val = val)

\* C6 as claimed: a request already in range is transmitted unchanged.
C6_Original ==
    /\ WireWithinLimits
    /\ SetterEnded =>
        LET val == op[2][1]
            w == Writes(log)
            lim == LimitOf(CmdOf(op[1]))
        IN  /\ result.kind = "none"
            /\ Len(w) = 1 /\ w[1].cmd = CmdOf(op[1])
            /\ (0 <= val /\ val <= lim) => float(w[1].arg) = val

\* a request above the limit has been sent as the limit
C6_Witness ==
    /\ SetterEnded
    /\ op[2][1] > LimitOf(CmdOf(op[1]))
    /\ float(Writes(log)[1].arg) = LimitOf(CmdOf(op[1]))

----------------------------------------------------------------------------
\* the number of fields of an identification reply: one more than its commas
Fields(s) == 1 + Cardinality({i \in 1..Len(s) : Ch(s, i) = ","})

\* the reply read after the i-th command of the log
ReplyAfter(i) == strip(log[i + 1].arg)

(* C7. If the reply to *IDN? has not exactly 4 comma-separated fields the  *)
(* constructor raises at once (AssertionError): *IDN? is the only command  *)
(* sent, nothing of the session is set, and there is no session to use.    *)
(* With exactly 4 fields, model, serial number and version are the 2nd,    *)
(* 3rd and 4th.                                                            *)
C7_IdentifyAborts ==
    (InInit /\ Len(log) > 0) =>
        LET reply == ReplyAfter(1)
        IN  /\ log[1].ev = "write" /\ log[1].cmd = "*IDN?\n" /\ log[2].ev = "readline"
            /\ Fields(reply) /= 4 =>
                  /\ pc = "failed"
                  /\ result.kind = "raise" /\ result.val = "AssertionError"
                  /\ Len(log) = 2
                  /\ model = None /\ sn = None /\ ver = None /\ st_result = None
                  /\ ~AllLimitsSet
            /\ Fields(reply) = 4 =>
                  /\ model /= None /\ sn /= None /\ ver /= None
                  /\ reply = split(reply, ",")[1] \o "," \o model[1] \o "," \o sn[1] \o "," \o ver[1]
                  /\ reply = "RIGOL,DP712,SN123,00.01.03" =>
                        (model[1] = "DP712" /\ sn[1] = "SN123" /\ ver[1] = "00.01.03")

\* a 5-field reply has aborted the constructor
C7_Witness ==
    /\ pc = "failed" /\ InInit
    /\ Len(log) = 2 /\ Fields(ReplyAfter(1)) = 5
    /\ result.val = "AssertionError"

----------------------------------------------------------------------------
\* s holds "fail" in some letter case
HasFail(s) ==
    \E i \in 1..(Len(s) - 3) :
        /\ Ch(s, i) \in {"f", "F"}
        /\ Ch(s, i + 1) \in {"a", "A"}
        /\ Ch(s, i + 2) \in {"i", "I"}
        /\ Ch(s, i + 3) \in {"l", "L"}

\* where *TST? is in the constructor's log: after *IDN? and its reply, and the
\* sleep of command if there is one
TstAt == IF log[3].ev = "sleep" THEN 4 ELSE 3

(* C8. A *TST? reply that holds "fail" in any letter case is recorded as   *)
(* fail, any other as pass; neither raises, and the constructor goes on    *)
(* with the four limit queries: a session whose self-test failed is still  *)
(* constructed, after six commands.                                        *)
C8_SelfTestReported ==
    (InInit /\ Len(log) > 2) =>
        /\ log[TstAt].ev = "write" /\ log[TstAt].cmd = "*TST?\n"
        /\ st_result = Some(IF HasFail(ReplyAfter(TstAt)) THEN "fail" ELSE "pass")
        /\ Len(Writes(log)) = 2 => (pc = "max_voltage" /\ result.kind = "running")
        /\ Constructed => Cmds(log) = CodeOrder

\* a session has been constructed although its self-test failed
C8_Witness ==
    /\ Constructed
    /\ st_result = Some("fail")
    /\ ReplyAfter(TstAt) = "FAIL"
    /\ AllLimitsSet

----------------------------------------------------------------------------
(* C9. An operation one of whose reads timed out ends in a failure         *)
(* surfaced to the caller: it does not return a value (a boolean query     *)
(* does not return false, the constructor does not return a session).      *)
C9_TimeoutPropagates ==
    (Ended /\ \E i \in 1..Len(log) : TimedOut(log[i])) => result.kind = "raise"

----------------------------------------------------------------------------
(* C10. The four limits and the model, serial number, version and          *)
(* self-test result are each assigned once, by the constructor: once set   *)
(* none changes, the constructor returns with all of them set, and no step *)
(* of a user-facing operation, succeeding or failing, changes any.         *)
C10_WriteOnce ==
    [][ /\ model /= None => model' = model
        /\ sn /= None => sn' = sn
        /\ ver /= None => ver' = ver
        /\ st_result /= None => st_result' = st_result
        /\ max_v /= None => max_v' = max_v
        /\ max_i /= None => max_i' = max_i
        /\ max_over_i /= None => max_over_i' = max_over_i
        /\ max_over_v /= None => max_over_v' = max_over_v
        /\ pc \notin HandshakePcs => UNCHANGED session
        /\ (pc \in HandshakePcs /\ pc' = "done")
              => (AllLimitsSet' /\ model' /= None /\ sn' /= None /\ ver' /= None
                  /\ st_result' /= None) ]_vars

\* a query whose reply was no number has failed on a constructed session
C10_Witness ==
    /\ pc = "done" /\ op[1] = "voltage"
    /\ result.kind = "raise"
    /\ AllLimitsSet /\ last_time /= None

----------------------------------------------------------------------------
\* a command that asks for a reply: its text holds a question mark
IsQuery(cmd) == \E i \in 1..Len(cmd) : Ch(cmd, i) = "?"
QueryWrites(l) == SelectSeq(l, LAMBDA e : e.ev = "write" /\ IsQuery(e.cmd))

SwitchOps == {"display", "output", "ovp_ctrl", "ocp_ctrl"}
TripOps == {"ovp_tripped", "ocp_tripped"}
ClearOps == {"ovp_clear", "ocp_clear"}
\* a set or clear operation, a single-quantity query, has ended
SetEnded ==
    /\ pc = "done"
    /\ \/ op[1] \in ClearOps
       \/ (op[1] \in SwitchOps \cup ValueSetters /\ op[2] /= None)
QueryEnded ==
    /\ pc = "done"
    /\ \/ op[1] \in TripOps
       \/ (op[1] \in SwitchOps \cup ValueSetters /\ op[2] = None)

(* C11. Framing: a set or clear operation writes exactly one command, no   *)
(* query, and reads nothing; a single-quantity query writes exactly one    *)
(* query command and reads exactly one line; and in whatever an operation  *)
(* or the constructor has done so far, each read follows the write of a    *)
(* query, so the read-lines are as many as the query commands written.     *)
C11_Framing ==
    /\ SetEnded => /\ Len(Writes(log)) = 1 /\ Len(Reads(log)) = 0
                   /\ ~IsQuery(Writes(log)[1].cmd)
    /\ QueryEnded => /\ Len(Writes(log)) = 1 /\ Len(Reads(log)) = 1
                     /\ IsQuery(Writes(log)[1].cmd)
    /\ Len(Reads(log)) = Len(QueryWrites(log))
    /\ \A i \in 1..Len(log) :
          log[i].ev = "readline" =>
              (i > 1 /\ log[i - 1].ev = "write" /\ IsQuery(log[i - 1].cmd))

\* a clear has ended: one command written, nothing read
C11_Witness ==
    /\ pc = "done" /\ op[1] \in ClearOps
    /\ Len(Writes(log)) = 1 /\ Len(Reads(log)) = 0
    /\ log[Len(log)].cmd = ":VOLT:PROT:CLE\n"

----------------------------------------------------------------------------
\* the reply an ended single query read, stripped
ReplyRead == strip(log[Len(log)].arg)
StateQueryEnded == pc = "done" /\ op[1] \in SwitchOps /\ op[2] = None
TripQueryEnded == pc = "done" /\ op[1] \in TripOps

(* C13. Boolean decoding: display, output, ovp_ctrl, ocp_ctrl without      *)
(* argument return true exactly when the stripped reply is "ON";           *)
(* ovp_tripped and ocp_tripped return true exactly when it is "YES"; any   *)
(* other reply ("OFF", "NO", "on", "Yes", none, garbage) gives false, and  *)
(* none raises.                                                            *)
C13_BooleanDecoding ==
    /\ StateQueryEnded =>
          (result.kind = "bool" /\ (result.val <=> ReplyRead = "ON"))
    /\ TripQueryEnded =>
          (result.kind = "bool" /\ (result.val <=> ReplyRead = "YES"))

\* a state query has read "on" and returned false
C13_Witness ==
    /\ StateQueryEnded
    /\ log[Len(log)].arg = "on\n"
    /\ result.kind = "bool" /\ result.val = FALSE

----------------------------------------------------------------------------
(* C18. Reply matching with one caller: every line a read returns is the   *)
(* line the instrument sent for the query written just before that read,   *)
(* also after an earlier read timed out before its reply arrived; no reply *)
(* of an earlier command is consumed by a later query.                     *)
C18_ReplyMatches ==
    \A i \in 2..Len(log) :
        (log[i].ev = "readline" /\ log[i].arg /= "")
            => log[i].cmd = log[i - 1].cmd

----------------------------------------------------------------------------
Min(a, b) == IF a <= b THEN a ELSE b
Max(a, b) == IF a <= b THEN b ELSE a

\* ramp_voltage is about to call self.voltage(v), in the loop or after it
RampAboutToSet == pc = "ramp" /\ op[1] = "ramp_voltage"

(* C19. Every value v that ramp_voltage passes to voltage(v), in the loop  *)
(* and after it, before clamping, lies between v_start and v_end, and the  *)
(* step from one value to the next has the direction of v_end - v_start:   *)
(* the ramp never overshoots v_end.                                        *)
C19_RampWithinEndpoints ==
    RampAboutToSet =>
        /\ Min(RampV0, RampV1) <= frame.v
        /\ frame.v <= Max(RampV0, RampV1)
        /\ RampV1 >= RampV0 => frame.delta_v >= 0
        /\ RampV1 <= RampV0 => frame.delta_v <= 0

----------------------------------------------------------------------------
(* The two module-level functions, clamp and minimal_float, called on      *)
(* their own with arguments of every kind.                                 *)

\* arguments of clamp, in thousandths: x from below to above every limit
MaxArg == 6
ClampArgs == {Volt * k : k \in -2..MaxArg}
MaxLimit == 4
ClampLimits == {Volt * k : k \in 0..MaxLimit}

\* arguments of minimal_float: the hundredths up to MaxCenti, and values with
\* zeros in the integer part
MaxCenti == 130
Hundredths ==
    {10 * k : k \in 0..MaxCenti}
        \cup {5 * Volt, 5100, 5250, 10 * Volt, 30 * Volt, 100 * Volt, 100010}

FnCalls ==
    {<<"clamp", x, lo, hi>> : x \in ClampArgs, lo \in ClampLimits, hi \in ClampLimits}
        \cup {<<"minimal_float", x>> : x \in Hundredths}

FnInit ==
    /\ pc = "call"
    /\ op \in FnCalls
    /\ result = Running
    /\ frame = NoFrame
    /\ now = 0 /\ last_time = None
    /\ model = None /\ sn = None /\ ver = None /\ st_result = None
    /\ max_v = None /\ max_i = None /\ max_over_i = None /\ max_over_v = None
    /\ log = << >>
    /\ sent = None /\ rx = << >> /\ late = << >> /\ faults = 0
    /\ inst = CHOOSE i \in Instruments : i.lat = FastReply

\* r = clamp(x, lo, hi)
call_clamp ==
    /\ pc = "call" /\ op[1] = "clamp"
    /\ result' = Returned("float", clamp(op[2], op[3], op[4]))
    /\ pc' = "returned"
    /\ UNCHANGED <<now, last_time, session, frame, op, log, port, inst>>

\* clamp(r, lo, hi), on the result of the first call
call_clamp_again ==
    /\ pc = "returned" /\ op[1] = "clamp"
    /\ frame' = [frame EXCEPT !.v = result.val]
    /\ result' = Returned("float", clamp(result.val, op[3], op[4]))
    /\ pc' = "again"
    /\ UNCHANGED <<now, last_time, session, op, log, port, inst>>

\* minimal_float(x)
call_minimal_float ==
    /\ pc = "call" /\ op[1] = "minimal_float"
    /\ result' = Returned("str", minimal_float(op[2]))
    /\ pc' = "returned"
    /\ UNCHANGED <<now, last_time, session, frame, op, log, port, inst>>

FnNext == call_clamp \/ call_clamp_again \/ call_minimal_float
FnSpec == FnInit /\ [][FnNext]_vars

----------------------------------------------------------------------------
(* C14. clamp: for lo <= hi the result lies in [lo, hi], is x when          *)
(* lo <= x <= hi, lo when x < lo and hi when x > hi; clamping the result   *)
(* again with the same limits gives the same result.                       *)
C14_Clamp ==
    (op[1] = "clamp" /\ pc \in {"returned", "again"} /\ op[3] <= op[4]) =>
        LET x == op[2]
            lo == op[3]
            hi == op[4]
            r == result.val
        IN  /\ lo <= r /\ r <= hi
            /\ (lo <= x /\ x <= hi) => r = x
            /\ x < lo => r = lo
            /\ x > hi => r = hi
            /\ pc = "again" => r = frame.v

\* a value above the upper limit has been clamped, twice
C14_Witness ==
    /\ op[1] = "clamp" /\ pc = "again"
    /\ op[3] < op[4] /\ op[2] > op[4]
    /\ result.val = op[4] /\ frame.v = op[4]

----------------------------------------------------------------------------
(* C15. minimal_float of a non-negative whole number of hundredths: the    *)
(* text denotes the same value; it has at most 2 decimals, no trailing 0   *)
(* among them and no point without decimals; a whole number is rendered    *)
(* with all its digits and nothing else (5.00 -> "5", 5.10 -> "5.1",       *)
(* 5.25 -> "5.25", 0.00 -> "0", 10.00 -> "10", 100.00 -> "100").           *)
C15_MinimalFloat ==
    (op[1] = "minimal_float" /\ pc = "returned") =>
        LET x == op[2]
            text == result.val
        IN  /\ IsFloat(text) /\ float(text) = x
            /\ Len(text) > 0 /\ IsDigit(Ch(text, 1))
            /\ Len(FracPart(text)) <= 2
            /\ HasPoint(text) =>
                  (Len(FracPart(text)) >= 1 /\ Ch(text, Len(text)) /= "0")
            /\ x % Volt = 0 => (~HasPoint(text) /\ AllDigits(text))
            /\ x = 5 * Volt => text = "5"
            /\ x = 5100 => text = "5.1"
            /\ x = 5250 => text = "5.25"
            /\ x = 0 => text = "0"
            /\ x = 10 * Volt => text = "10"
            /\ x = 100 * Volt => text = "100"

\* 10.00 has been rendered: both decimals and the point are gone, the 0 of the
\* integer part is kept
C15_Witness ==
    /\ op = <<"minimal_float", 10 * Volt>> /\ pc = "returned"
    /\ result.val = "10"

----------------------------------------------------------------------------
(* The summaries on a constructed session, with an instrument whose        *)
(* protection state is followed and changes on its own while the caller    *)
(* works.  Replies arrive in time and ungarbled here.                      *)

SumInit ==
    /\ pc = "ready"
    /\ op = <<"none">>
    /\ result = Running
    /\ frame = NoFrame
    /\ log = << >>
    /\ now = 0 /\ last_time = Some(0) /\ sent = Some(0)
    /\ rx = << >> /\ late = << >> /\ faults = MaxFaults
    /\ \E i \in Instruments :
        /\ inst = [i EXCEPT !.phase = 1]
        /\ max_v = Some(float(i.max_v)) /\ max_i = Some(float(i.max_i))
        /\ max_over_i = Some(float(i.max_over_i))
        /\ max_over_v = Some(float(i.max_over_v))
    /\ model = Some("DP712") /\ sn = Some("SN123") /\ ver = Some("00.01.03")
    /\ st_result = Some("pass")

\* the protection of the instrument goes to its next state
panel_changes ==
    /\ inst' = [inst EXCEPT !.phase = (@ % Len(Panel)) + 1]
    /\ UNCHANGED <<pc, now, last_time, session, frame, op, result, log, port>>

SumNext == ovp_str \/ ocp_str \/ Return \/ Idle \/ panel_changes
SumSpec == SumInit /\ [][SumNext]_vars

\* the three queries of a summary, and the unit of its level
SummaryCmds(name) ==
    IF name = "ovp_str"
    THEN <<":VOLT:PROT:STAT?\n", ":VOLT:PROT?\n", ":VOLT:PROT:TRIP?\n">>
    ELSE <<":CURR:PROT:STAT?\n", ":CURR:PROT?\n", ":CURR:PROT:TRIP?\n">>
UnitOf(name) == IF name = "ovp_str" THEN "V" ELSE "A"

\* the line a summary makes of three replies
SummaryOf(name, stat, level, trip) ==
    (IF strip(stat) = "ON" THEN "on" ELSE "off") \o " "
        \o Fixed2(float(level)) \o UnitOf(name) \o " "
        \o (IF strip(trip) = "YES" THEN "tripped" ELSE "ok")

\* the summaries of the states the instrument is ever in
HeldAtOneInstant(name) ==
    {SummaryOf(name, Panel[k].stat, Panel[k].level, Panel[k].trip) : k \in 1..Len(Panel)}

InSummary == op[1] \in {"ovp_str", "ocp_str"}
SummaryEnded == pc = "done" /\ InSummary /\ result.kind = "str"

(* C17. A summary sends its three queries in the order enabled-state,      *)
(* level, trip-state, each followed by one read, and no other command; the *)
(* line it returns is made of the three replies of this call and of        *)
(* nothing stored in the session; each reply is the instrument's answer in *)
(* the state it is in at that query.                                       *)
C17_Summary ==
    /\ InSummary => IsPrefix(Cmds(log), SummaryCmds(op[1]))
    /\ InSummary => Len(Reads(log)) = Len(Writes(log))
    /\ SummaryEnded =>
          LET r == Reads(log)
          IN  /\ Cmds(log) = SummaryCmds(op[1])
              /\ Len(r) = 3
              /\ result.val = SummaryOf(op[1], r[1].arg, r[2].arg, r[3].arg)
              /\ \E a, b, c \in 1..Len(Panel) :
                    /\ r[1].arg = Panel[a].stat
                    /\ r[2].arg = Panel[b].level
                    /\ r[3].arg = Panel[c].trip

\* a summary has returned a combination the instrument never held at one
\* instant: its state changed between the queries
C17_Witness ==
    /\ SummaryEnded
    /\ result.val \notin HeldAtOneInstant(op[1])

----------------------------------------------------------------------------
(* command() statement by statement, called by two threads on one session  *)
(* with no lock.  Here pc, op, frame and result hold one value per caller, *)
(* frame being the locals of its command(); log is the list of the         *)
(* commands written to the port.  The instrument answers a query as soon   *)
(* as it is written.  Time passes only while every caller is outside       *)
(* command(), asleep or waiting for its line.                              *)

Callers == {1, 2}
\* calls each caller makes
MaxCalls == 2
\* how the clock advances, and until when, ms
TickStep == 25
MaxClock == 150

\* the query each caller sends, and the instrument's answer to it
QueryOf(c) == IF c = 1 THEN ":VOLT?\n" ELSE ":CURR?\n"
AnswerTo(c) == [text |-> IF c = 1 THEN "12.000\n" ELSE "1.500\n", q |-> QueryOf(c), who |-> c]

NoLocals ==
    [seen |-> None, entered |-> 0, wait |-> 0, stamp |-> 0, overlap |-> FALSE, calls |-> 0]

ThInit ==
    /\ pc = [c \in Callers |-> "idle"]
    /\ op = [c \in Callers |-> QueryOf(c)]
    /\ result = [c \in Callers |-> Running]
    /\ frame = [c \in Callers |-> NoLocals]
    /\ log = << >>
    /\ now = 0
    /\ \/ last_time = None /\ sent = None
       \/ last_time = Some(0) /\ sent = Some(0)
    /\ rx = << >> /\ late = << >> /\ faults = 0
    /\ inst = CHOOSE i \in Instruments : i.lat = FastReply
    /\ max_v = Some(float(inst.max_v)) /\ max_i = Some(float(inst.max_i))
    /\ max_over_i = Some(float(inst.max_over_i))
    /\ max_over_v = Some(float(inst.max_over_v))
    /\ model = Some("DP712") /\ sn = Some("SN123") /\ ver = Some("00.01.03")
    /\ st_result = Some("pass")

\* caller c enters command(cmd)
th_call(c) ==
    /\ pc[c] \in {"idle", "returned", "raised"}
    /\ frame[c].calls < MaxCalls
    /\ pc' = [pc EXCEPT ![c] = "check"]
    /\ frame' = [frame EXCEPT ![c] = [NoLocals EXCEPT !.calls = frame[c].calls + 1]]
    /\ result' = [result EXCEPT ![c] = Running]
    /\ UNCHANGED <<now, last_time, session, op, log, port, inst>>

\* command() without its wait
th_check_NoWait(c) ==
    /\ pc[c] = "check"
    /\ frame' = [frame EXCEPT ![c].seen = last_time, ![c].entered = now, ![c].wait = 0]
    /\ pc' = [pc EXCEPT ![c] = "stamp"]
    /\ UNCHANGED <<now, last_time, session, op, result, log, port, inst>>

\* if self.last_time is not None: delta = ...; if delta > 0.0:
th_check(c) ==
    /\ pc[c] = "check"
    /\ frame' = [frame EXCEPT ![c].seen = last_time, ![c].entered = now,
                              ![c].wait = IF Sleeps THEN Delta ELSE 0]
    /\ pc' = [pc EXCEPT ![c] = IF Sleeps THEN "sleep" ELSE "stamp"]
    /\ UNCHANGED <<now, last_time, session, op, result, log, port, inst>>

\* time.sleep(delta) returns
th_wake(c) ==
    /\ pc[c] = "sleep"
    /\ now >= frame[c].entered + frame[c].wait
    /\ pc' = [pc EXCEPT ![c] = "stamp"]
    /\ UNCHANGED <<now, last_time, session, frame, op, result, log, port, inst>>

\* self.last_time = time.time(), taken when command() was entered
th_stamp_AtEntry(c) ==
    /\ pc[c] = "stamp"
    /\ last_time' = Some(frame[c].entered)
    /\ frame' = [frame EXCEPT ![c].stamp = frame[c].entered]
    /\ pc' = [pc EXCEPT ![c] = "write"]
    /\ UNCHANGED <<now, session, op, result, log, port, inst>>

\* self.last_time = time.time()
th_stamp(c) ==
    /\ pc[c] = "stamp"
    /\ last_time' = Some(now)
    /\ frame' = [frame EXCEPT ![c].stamp = now]
    /\ pc' = [pc EXCEPT ![c] = "write"]
    /\ UNCHANGED <<now, session, op, result, log, port, inst>>

\* callers that have written a query and not yet read a line
Waiting == {d \in Callers : pc[d] = "read"}

\* self.serial.write(cmd)
th_write(c) ==
    /\ pc[c] = "write"
    /\ log' = Append(log, [who |-> c, t |-> now, seen |-> frame[c].seen, cmd |-> op[c]])
    /\ sent' = Some(now)
    /\ rx' = Append(rx, AnswerTo(c))
    /\ frame' = [d \in Callers |->
                    IF Waiting /= {} /\ d \in Waiting \cup {c}
                    THEN [frame[d] EXCEPT !.overlap = TRUE] ELSE frame[d]]
    /\ pc' = [pc EXCEPT ![c] = "read"]
    /\ UNCHANGED <<now, last_time, session, op, result, late, faults, inst>>

\* self.serial.write(cmd) raises (the port has gone): nothing is sent
th_write_fails(c) ==
    /\ pc[c] = "write"
    /\ faults < MaxFaults
    /\ faults' = faults + 1
    /\ pc' = [pc EXCEPT ![c] = "raised"]
    /\ result' = [result EXCEPT ![c] = Raised("SerialException")]
    /\ UNCHANGED <<now, last_time, session, frame, op, log, sent, rx, late, inst>>

\* return self.serial.readline().strip(): the first line of the input buffer
th_read(c) ==
    /\ pc[c] = "read"
    /\ rx /= << >>
    /\ result' = [result EXCEPT ![c] =
                    [kind |-> "line", val |-> strip(Head(rx).text), who |-> Head(rx).who]]
    /\ rx' = Tail(rx)
    /\ pc' = [pc EXCEPT ![c] = "returned"]
    /\ UNCHANGED <<now, last_time, session, frame, op, log, sent, late, faults, inst>>

\* whether caller c is blocked, or outside command()
Blocked(c) ==
    \/ pc[c] \in {"idle", "read", "returned", "raised"}
    \/ pc[c] = "sleep" /\ now < frame[c].entered + frame[c].wait

\* when the sleeping callers are due to wake
Due == {frame[c].entered + frame[c].wait : c \in {d \in Callers : pc[d] = "sleep"}}

\* time passes, up to the next wake-up: time.sleep(delta) lasts delta
tick ==
    /\ now < MaxClock
    /\ \A c \in Callers : Blocked(c)
    /\ now' = CHOOSE t \in Due \cup {now + TickStep} :
                  \A u \in Due \cup {now + TickStep} : t <= u
    /\ UNCHANGED <<pc, last_time, session, frame, op, result, log, port, inst>>

ThNext ==
    \/ \E c \in Callers : th_call(c)
    \/ \E c \in Callers : th_check(c)
    \/ \E c \in Callers : th_wake(c)
    \/ \E c \in Callers : th_stamp(c)
    \/ \E c \in Callers : th_write(c)
    \/ \E c \in Callers : th_write_fails(c)
    \/ \E c \in Callers : th_read(c)
    \/ tick
ThSpec == ThInit /\ [][ThNext]_vars

----------------------------------------------------------------------------
\* two commands written one after the other, less than MINIMAL_TIME apart
TooClose(i) == log[i].t - log[i - 1].t < MINIMAL_TIME
\* caller c has been returned the line sent for the other caller's query
Misdelivered(c) == pc[c] = "returned" /\ result[c].who /= c

(* C12. Two callers on one session without a lock.  What command() still   *)
(* guarantees: each command is written at least 50 ms after the timestamp  *)
(* its caller read.  Two commands are written less than 50 ms apart only   *)
(* by different callers, the later having read the timestamp before the    *)
(* earlier stored its own; and a caller is returned the other's reply only *)
(* when the two queries were outstanding together.  Both hazards are       *)
(* reachable: C12_Hazards.                                                 *)
C12_OnlyWhenInterleaved ==
    /\ \A i \in 1..Len(log) :
          log[i].seen /= None => log[i].t - log[i].seen[1] >= MINIMAL_TIME
    /\ \A i \in 2..Len(log) :
          TooClose(i) => /\ log[i].who /= log[i - 1].who
                         /\ (log[i].seen = None \/ log[i].seen[1] < log[i - 1].t)
    /\ \A c \in Callers : Misdelivered(c) => frame[c].overlap

\* an interleaving with both hazards: two commands written less than 50 ms
\* apart, and a caller holding the reply to the other caller's query
C12_Hazards ==
    /\ \E i \in 2..Len(log) : TooClose(i) /\ log[i - 1].seen /= None
    /\ \E c \in Callers : Misdelivered(c) /\ result[c].val = "12.000" /\ op[c] = ":CURR?\n"

----------------------------------------------------------------------------
\* caller c is past the wait of its command()
PastWait(c) == pc[c] \in {"stamp", "write", "read", "returned", "raised"}
\* and past self.last_time = time.time()
PastStamp(c) == pc[c] \in {"write", "read", "returned", "raised"}

(* C16. Wait of command(): none when no command was issued before          *)
(* (last_time is None); otherwise max(0, 50 ms - elapsed), elapsed being   *)
(* the time since the recorded issue time of the previous command, so at   *)
(* most 50 ms.  The issue time is recorded when the wait is over and       *)
(* before the write: a command is written at its recorded issue time, and  *)
(* when the write fails the issue time recorded for it stays.              *)
C16_WaitDuration ==
    \A c \in Callers :
        LET f == frame[c]
        IN  /\ (pc[c] = "sleep" \/ PastWait(c)) =>
                  /\ f.seen = None => f.wait = 0
                  /\ f.seen /= None =>
                        f.wait = Max(0, MINIMAL_TIME - (f.entered - f.seen[1]))
                  /\ f.wait <= MINIMAL_TIME
                  /\ pc[c] = "sleep" => f.wait > 0
            /\ PastStamp(c) =>
                  /\ f.stamp = f.entered + f.wait
                  /\ last_time /= None /\ last_time[1] >= f.stamp
            /\ pc[c] = "write" => (last_time = Some(f.stamp) /\ now = f.stamp)
            /\ pc[c] = "raised" => \A i \in 1..Len(log) :
                                      (log[i].who = c => log[i].t < f.stamp)

\* a write has failed after a wait of 25 ms: the issue time recorded is that of
\* the command that was never sent
C16_Witness ==
    \E c \in Callers :
        /\ pc[c] = "raised"
        /\ frame[c].wait = MINIMAL_TIME - TickStep
        /\ last_time = Some(frame[c].stamp)
        /\ sent /= last_time

====
